---- MODULE Spec2Model ----
(***************************************************************************)
(* Model of the two mock log emitters of alert-engine:                     *)
(*   MockLogGenerator (deployments/mock/mock_log_generator.py), which      *)
(*   prints records to stdout, and                                         *)
(*   MockLogForwarder (local_e2e/setup/mock_log_forwarder.py), which       *)
(*   publishes records to a Kafka topic.                                   *)
(* A behaviour is one run of one emitter: the configuration is fixed in    *)
(* Init, and pc walks through start(), the drivers, generate_pattern_burst *)
(* and the sink.  Strings are TLA+ strings, so a keyword's presence in a   *)
(* message is a literal substring test.  Fields of a record that no        *)
(* operation reads again (pod names, labels, ids) are left out.            *)
(***************************************************************************)
EXTENDS Integers, Sequences, FiniteSets, TLC

(* ---------------------------------------------------------------- bounds *)
\* The continuous loop is followed for at most MaxCycles counted cycles.
MaxCycles == 11
\* ... and for at most MaxBursts bursts.
MaxBursts == 2
\* BURST_INTERVAL values 0..MaxBurstInterval are tried for the generator.
MaxBurstInterval == 2
\* Explicit count arguments 0..MaxExplicitCount are tried for a direct burst call.
MaxExplicitCount == 3

(* ------------------------------------------------------------- constants *)
NormalsPerCycle == 5
DefaultThreshold == 5
TestModeCount == 2
GeneratorMaxBuffer == 3
ForwarderMaxBuffer == 5
ForwarderTestBuffer == 2
ForwarderBurstEvery == 10

(* --------------------------------------------------------------- catalog *)
\* self.patterns: the two emitters hold the same table, key for key.
patterns == [
    high_error_rate |-> [
        conditions |-> [log_level |-> "ERROR", threshold |-> 10, time_window |-> 300],
        keywords |-> <<"error", "failed", "exception", "timeout">>,
        services |-> <<"payment-service", "user-service", "database-service">>],
    payment_failures |-> [
        conditions |-> [service |-> "payment-service", keywords |-> <<"payment failed">>, threshold |-> 5],
        keywords |-> <<"payment failed", "transaction declined", "payment timeout">>,
        services |-> <<"payment-service">>],
    database_errors |-> [
        conditions |-> [service |-> "database-service", log_level |-> "ERROR", threshold |-> 3],
        keywords |-> <<"connection refused", "deadlock detected", "query timeout">>,
        services |-> <<"database-service">>],
    authentication_failures |-> [
        conditions |-> [service |-> "authentication-api", keywords |-> <<"authentication failed">>, threshold |-> 10],
        keywords |-> <<"authentication failed", "invalid credentials", "token expired">>,
        services |-> <<"authentication-api">>],
    service_timeouts |-> [
        conditions |-> [keywords |-> <<"timeout">>, threshold |-> 5, time_window |-> 300],
        keywords |-> <<"timeout", "connection timeout", "request timeout", "gateway timeout">>,
        services |-> <<"payment-service", "user-service", "inventory-service">>],
    critical_namespace_alerts |-> [
        conditions |-> [namespace |-> "production", log_level |-> "CRITICAL", threshold |-> 1],
        keywords |-> <<"critical", "fatal", "emergency", "disaster">>,
        services |-> <<"order-service", "payment-service", "user-service">>],
    inventory_warnings |-> [
        conditions |-> [service |-> "inventory-service", log_level |-> "WARN", threshold |-> 15],
        keywords |-> <<"low stock", "inventory warning", "stock alert", "out of stock">>,
        services |-> <<"inventory-service">>],
    notification_failures |-> [
        conditions |-> [service |-> "notification-service", keywords |-> <<"notification failed">>, threshold |-> 8],
        keywords |-> <<"notification failed", "email failed", "sms failed", "push notification failed">>,
        services |-> <<"notification-service">>],
    high_warn_rate |-> [
        conditions |-> [log_level |-> "WARN", threshold |-> 25, time_window |-> 600],
        keywords |-> <<"warning", "deprecated", "slow response", "performance">>,
        services |-> <<"order-service", "shipping-service", "billing-service">>],
    audit_issues |-> [
        conditions |-> [service |-> "audit-service", keywords |-> <<"audit">>, threshold |-> 5],
        keywords |-> <<"audit trail", "security audit", "access violation", "unauthorized access">>,
        services |-> <<"audit-service">>],
    checkout_payment_failed |-> [
        conditions |-> [service |-> "checkout-service", keywords |-> <<"payment failed">>, threshold |-> 1],
        keywords |-> <<"payment failed", "payment declined", "checkout failed">>,
        services |-> <<"checkout-service">>],
    inventory_stock_unavailable |-> [
        conditions |-> [service |-> "inventory-service", keywords |-> <<"stock unavailable">>, threshold |-> 1],
        keywords |-> <<"stock unavailable", "out of stock", "inventory depleted">>,
        services |-> <<"inventory-service">>],
    email_smtp_failed |-> [
        conditions |-> [service |-> "email-service", keywords |-> <<"SMTP connection failed">>, threshold |-> 1],
        keywords |-> <<"SMTP connection failed", "email server down", "mail delivery failed">>,
        services |-> <<"email-service">>],
    redis_connection_refused |-> [
        conditions |-> [service |-> "redis-cache", keywords |-> <<"connection refused">>, threshold |-> 1],
        keywords |-> <<"connection refused", "redis unavailable", "cache connection failed">>,
        services |-> <<"redis-cache">>],
    message_queue_full |-> [
        conditions |-> [service |-> "message-queue", keywords |-> <<"queue full">>, threshold |-> 1],
        keywords |-> <<"queue full", "message queue overflow", "queue capacity exceeded">>,
        services |-> <<"message-queue">>],
    timeout_any_service |-> [
        conditions |-> [keywords |-> <<"timeout">>, threshold |-> 1],
        keywords |-> <<"timeout", "request timeout", "connection timeout">>,
        services |-> <<"payment-service", "user-service", "inventory-service", "order-service">>],
    slow_query |-> [
        conditions |-> [keywords |-> <<"slow query">>, threshold |-> 1],
        keywords |-> <<"slow query", "query timeout", "database performance">>,
        services |-> <<"database-service", "order-service", "user-service">>],
    deadlock_detected |-> [
        conditions |-> [keywords |-> <<"deadlock detected">>, threshold |-> 1],
        keywords |-> <<"deadlock detected", "database deadlock", "transaction deadlock">>,
        services |-> <<"database-service">>],
    cross_service_errors |-> [
        conditions |-> [keywords |-> <<"service unavailable">>, threshold |-> 3, time_window |-> 180],
        keywords |-> <<"service unavailable", "dependency failed", "circuit breaker", "upstream error">>,
        services |-> <<"payment-service", "user-service", "inventory-service", "order-service">>]]

PatternNames == DOMAIN patterns

\* list(self.patterns.keys()): dict insertion order.
PatternOrder == <<
    "high_error_rate", "payment_failures", "database_errors",
    "authentication_failures", "service_timeouts", "critical_namespace_alerts",
    "inventory_warnings", "notification_failures", "high_warn_rate",
    "audit_issues", "checkout_payment_failed", "inventory_stock_unavailable",
    "email_smtp_failed", "redis_connection_refused", "message_queue_full",
    "timeout_any_service", "slow_query", "deadlock_detected",
    "cross_service_errors">>

\* self.services
services == <<
    "payment-service", "user-service", "database-service",
    "authentication-api", "inventory-service", "notification-service",
    "order-service", "shipping-service", "billing-service", "audit-service",
    "checkout-service", "email-service", "redis-cache", "message-queue">>

\* e2e_overrides of MockLogGenerator.generate_pattern_log (test mode only).
e2e_overrides == [
    high_error_rate |-> [level |-> "ERROR", service |-> "payment-service"],
    high_warn_rate |-> [level |-> "WARN", service |-> "user-service"],
    database_errors |-> [level |-> "FATAL", service |-> "database-service"],
    authentication_failures |-> [level |-> "ERROR", service |-> "authentication-api"]]

\* e2e_test_patterns of MockLogGenerator.test_all_patterns.
e2e_test_patterns == <<
    "high_error_rate", "high_warn_rate", "database_errors",
    "authentication_failures", "checkout_payment_failed",
    "inventory_stock_unavailable", "email_smtp_failed",
    "redis_connection_refused", "message_queue_full", "timeout_any_service",
    "slow_query", "deadlock_detected">>

(* --------------------------------------------------------------- strings *)
Range(seq) == {seq[n] : n \in DOMAIN seq}

\* Python's  k in s  for strings: k is a literal substring of s.
Contains(s, k) ==
    \E n \in 1..(Len(s) - Len(k) + 1) : SubSeq(s, n, n + Len(k) - 1) = k

\* random.randint(a, b), sampled at the two ends of its range (u is 0 or 1).
randint(a, b, u) == IF u = 0 THEN a ELSE b

RandomPicks == {0, 1}

(* ------------------------------------------------------------- templates *)
\* messages / normal_messages, mock_log_generator.py lines 245-258
GeneratorTestMessages(service, keyword, u) == [
    high_error_rate |-> "Payment service error: " \o keyword \o " - transaction processing failed for user " \o ToString(randint(1000, 9999, u)),
    high_warn_rate |-> "User service warning: " \o keyword \o " - memory usage approaching limits",
    database_errors |-> "Database fatal error: " \o keyword \o " - connection lost to primary database",
    authentication_failures |-> "Authentication API error: " \o keyword \o " - invalid token for user " \o ToString(randint(1000, 9999, u)),
    checkout_payment_failed |-> "Checkout process: " \o keyword \o " for order #" \o ToString(randint(10000, 99999, u)),
    inventory_stock_unavailable |-> "Inventory alert: " \o keyword \o " for item SKU-" \o ToString(randint(1000, 9999, u)),
    email_smtp_failed |-> "Email service: " \o keyword \o " while connecting to mail server",
    redis_connection_refused |-> "Redis cache: " \o keyword \o " - unable to establish connection",
    message_queue_full |-> "Message queue: " \o keyword \o " - broker capacity exceeded",
    timeout_any_service |-> "Service operation: " \o keyword \o " after 30 seconds waiting for response",
    slow_query |-> "Database query: " \o keyword \o " detected - execution time 2.5 seconds",
    deadlock_detected |-> "Database transaction: " \o keyword \o " between user operations"]

\* messages / normal_messages, mock_log_generator.py lines 261-281
GeneratorMessages(service, keyword, u) == [
    high_error_rate |-> "Service " \o service \o " encountered an error: " \o keyword \o " during request processing",
    payment_failures |-> "Payment processing failed: " \o keyword \o " for transaction ID " \o ToString(randint(10000, 99999, u)),
    database_errors |-> "Database operation failed: " \o keyword \o " on table users_table",
    authentication_failures |-> "User authentication failed: " \o keyword \o " for user ID " \o ToString(randint(1000, 9999, u)),
    service_timeouts |-> "Service request timeout: " \o keyword \o " after 30 seconds waiting for response",
    critical_namespace_alerts |-> "Critical system failure: " \o keyword \o " - immediate attention required",
    inventory_warnings |-> "Inventory alert: " \o keyword \o " for product SKU-" \o ToString(randint(1000, 9999, u)),
    notification_failures |-> "Notification delivery failed: " \o keyword \o " to user " \o ToString(randint(1000, 9999, u)),
    high_warn_rate |-> "Performance warning: " \o keyword \o " detected in service operation",
    audit_issues |-> "Security audit issue: " \o keyword \o " detected in user action",
    cross_service_errors |-> "Service communication error: " \o keyword \o " when calling downstream service",
    checkout_payment_failed |-> "Checkout process failed: " \o keyword \o " for order #" \o ToString(randint(10000, 99999, u)),
    inventory_stock_unavailable |-> "Inventory management: " \o keyword \o " for item SKU-" \o ToString(randint(1000, 9999, u)),
    email_smtp_failed |-> "Email service error: " \o keyword \o " while sending notification",
    redis_connection_refused |-> "Cache service error: " \o keyword \o " - unable to connect to Redis",
    message_queue_full |-> "Message broker alert: " \o keyword \o " - unable to enqueue message",
    timeout_any_service |-> "Service operation: " \o keyword \o " after waiting 30 seconds",
    slow_query |-> "Database performance: " \o keyword \o " detected - execution time exceeded threshold",
    deadlock_detected |-> "Database concurrency issue: " \o keyword \o " in transaction processing"]

\* messages / normal_messages, mock_log_generator.py lines 302-313
GeneratorNormalMessages(service, u) == <<
    "Request processed successfully for user " \o ToString(randint(1000, 9999, u)),
    "Service " \o service \o " started successfully",
    "Database query completed in " \o ToString(randint(10, 500, u)) \o "ms",
    "Cache hit for key user:" \o ToString(randint(1000, 9999, u)),
    "Health check passed for " \o service,
    "Processing batch job with " \o ToString(randint(10, 100, u)) \o " items",
    "User session created for user " \o ToString(randint(1000, 9999, u)),
    "Configuration loaded successfully",
    "Metrics published to monitoring system",
    "Background task completed successfully">>

\* messages / normal_messages, mock_log_forwarder.py lines 201-222
ForwarderMessages(service, keyword, u) == [
    high_error_rate |-> "Service " \o service \o " encountered an error: " \o keyword \o " during request processing",
    payment_failures |-> "Payment processing failed: " \o keyword \o " for transaction ID " \o ToString(randint(10000, 99999, u)),
    database_errors |-> "Database operation failed: " \o keyword \o " on table users_table",
    authentication_failures |-> "User authentication failed: " \o keyword \o " for user ID " \o ToString(randint(1000, 9999, u)),
    service_timeouts |-> "Service request timeout: " \o keyword \o " after 30 seconds waiting for response",
    critical_namespace_alerts |-> "Critical system failure: " \o keyword \o " - immediate attention required",
    inventory_warnings |-> "Inventory alert: " \o keyword \o " for product SKU-" \o ToString(randint(1000, 9999, u)),
    notification_failures |-> "Notification delivery failed: " \o keyword \o " to user " \o ToString(randint(1000, 9999, u)),
    high_warn_rate |-> "Performance warning: " \o keyword \o " detected in service operation",
    audit_issues |-> "Security audit issue: " \o keyword \o " detected in user action",
    cross_service_errors |-> "Service communication error: " \o keyword \o " when calling downstream service",
    checkout_payment_failed |-> "Checkout process failed: " \o keyword \o " for order #" \o ToString(randint(10000, 99999, u)),
    inventory_stock_unavailable |-> "Inventory management: " \o keyword \o " for item SKU-" \o ToString(randint(1000, 9999, u)),
    email_smtp_failed |-> "Email service error: " \o keyword \o " while sending notification",
    redis_connection_refused |-> "Cache service error: " \o keyword \o " - unable to connect to Redis",
    message_queue_full |-> "Message broker alert: " \o keyword \o " - unable to enqueue message",
    timeout_any_service |-> "Service operation: " \o keyword \o " after waiting 30 seconds",
    slow_query |-> "Database performance: " \o keyword \o " detected - execution time exceeded threshold",
    deadlock_detected |-> "Database concurrency issue: " \o keyword \o " in transaction processing"]

\* messages / normal_messages, mock_log_forwarder.py lines 244-255
ForwarderNormalMessages(service, u) == <<
    "Request processed successfully for user " \o ToString(randint(1000, 9999, u)),
    "Service " \o service \o " started successfully",
    "Database query completed in " \o ToString(randint(10, 500, u)) \o "ms",
    "Cache hit for key user:" \o ToString(randint(1000, 9999, u)),
    "Health check passed for " \o service,
    "Processing batch job with " \o ToString(randint(10, 100, u)) \o " items",
    "User session created for user " \o ToString(randint(1000, 9999, u)),
    "Configuration loaded successfully",
    "Metrics published to monitoring system",
    "Background task completed successfully">>

(* --------------------------------------------------------------- records *)
NoLog == [level |-> "", service |-> "", message |-> ""]

\* generate_base_log(service, level): the fields later code reads.
generate_base_log(service, level) ==
    [level |-> level, service |-> service, message |-> ""]

\* The level chosen at lines 215-218 (generator) / 190-193 (forwarder).
PatternLevels(pattern_config) ==
    IF "log_level" \in DOMAIN pattern_config.conditions
    THEN {pattern_config.conditions.log_level}
    ELSE {"ERROR", "WARN", "INFO", "FATAL"}

\* Variant of OverrideLevel: the override is applied whatever the mode.
OverrideLevelAnyMode(mode, pattern_name, level) ==
    IF pattern_name \in DOMAIN e2e_overrides
    THEN e2e_overrides[pattern_name].level
    ELSE level

\* Lines 221-234: the e2e override of level, applied in test mode only.
OverrideLevel(mode, pattern_name, level) ==
    IF mode = "test" /\ pattern_name \in DOMAIN e2e_overrides
    THEN e2e_overrides[pattern_name].level
    ELSE level

\* Lines 221-234: the e2e override of service, applied in test mode only.
OverrideService(mode, pattern_name, service) ==
    IF mode = "test" /\ pattern_name \in DOMAIN e2e_overrides
    THEN e2e_overrides[pattern_name].service
    ELSE service

\* Variant of MessagesGet: the fallback message leaves the keyword out.
MessagesGetNoKeyword(messages, pattern_name, keyword) ==
    IF pattern_name \in DOMAIN messages
    THEN messages[pattern_name]
    ELSE "Service log"

\* messages.get(pattern_name, f"Service log: {keyword}")
MessagesGet(messages, pattern_name, keyword) ==
    IF pattern_name \in DOMAIN messages
    THEN messages[pattern_name]
    ELSE "Service log: " \o keyword

\* Lines 243-283: the template table of the active mode, then the lookup.
GeneratorMessage(mode, pattern_name, service, keyword, u) ==
    IF mode = "test"
    THEN MessagesGet(GeneratorTestMessages(service, keyword, u), pattern_name, keyword)
    ELSE MessagesGet(GeneratorMessages(service, keyword, u), pattern_name, keyword)

\* MockLogGenerator.generate_pattern_log with its random choices as arguments:
\* service0, level0 are the choices before the override, keyword and u the
\* later ones.
GeneratorPatternLog(mode, pattern_name, service0, level0, keyword, u) ==
    LET service == OverrideService(mode, pattern_name, service0)
        level == OverrideLevel(mode, pattern_name, level0)
        base == generate_base_log(service, level)
    IN [base EXCEPT !.message = GeneratorMessage(mode, pattern_name, service, keyword, u)]

\* MockLogForwarder.generate_pattern_log with its random choices as arguments.
ForwarderPatternLog(pattern_name, service, level, keyword, u) ==
    LET base == generate_base_log(service, level)
    IN [base EXCEPT !.message =
            MessagesGet(ForwarderMessages(service, keyword, u), pattern_name, keyword)]

\* Every record generate_pattern_log can return for the pattern.
PatternLogs(em, mode, pattern_name) ==
    LET pattern_config == patterns[pattern_name]
    IN { IF em = "generator"
         THEN GeneratorPatternLog(mode, pattern_name, s, l, kw, u)
         ELSE ForwarderPatternLog(pattern_name, s, l, kw, u) :
           s \in Range(pattern_config.services),
           l \in PatternLevels(pattern_config),
           kw \in Range(pattern_config.keywords),
           u \in RandomPicks }

\* Every record generate_normal_log can return (both emitters).
NormalLogs(em) ==
    { [generate_base_log(s, l) EXCEPT !.message =
          IF em = "generator" THEN GeneratorNormalMessages(s, u)[m]
                              ELSE ForwarderNormalMessages(s, u)[m]] :
        s \in Range(services), l \in {"INFO", "DEBUG"},
        m \in 1..10, u \in RandomPicks }

(* ------------------------------------------------------------ burst size *)
\* pattern_config["conditions"].get("threshold", 5)
Threshold(pattern_config) ==
    IF "threshold" \in DOMAIN pattern_config.conditions
    THEN pattern_config.conditions.threshold
    ELSE DefaultThreshold

\* Variant of GeneratorAutoCounts: test mode uses the threshold rule too.
GeneratorAutoCountsNoTestRule(mode, pattern_config) ==
    {Threshold(pattern_config) + b : b \in 1..GeneratorMaxBuffer}

\* Variant of GeneratorAutoCounts: the buffer is the forwarder's 1..5.
GeneratorAutoCountsWide(mode, pattern_config) ==
    IF mode = "test"
    THEN {TestModeCount}
    ELSE {Threshold(pattern_config) + b : b \in 1..ForwarderMaxBuffer}

\* Variant of GeneratorAutoCounts: the buffer starts at 0.
GeneratorAutoCountsFromZero(mode, pattern_config) ==
    IF mode = "test"
    THEN {TestModeCount}
    ELSE {Threshold(pattern_config) + b : b \in 0..GeneratorMaxBuffer}

\* MockLogGenerator.generate_pattern_burst, count is None: the counts the
\* automatic rule can choose.
GeneratorAutoCounts(mode, pattern_config) ==
    IF mode = "test"
    THEN {TestModeCount}
    ELSE {Threshold(pattern_config) + b : b \in 1..GeneratorMaxBuffer}

\* MockLogForwarder.continuous_generation: threshold + random.randint(1, 5)
ForwarderBurstCounts(pattern_config) ==
    {Threshold(pattern_config) + b : b \in 1..ForwarderMaxBuffer}

\* MockLogForwarder.test_all_patterns: threshold + 2
ForwarderTestCount(pattern_config) ==
    Threshold(pattern_config) + ForwarderTestBuffer

(* ------------------------------------------------------------------ sink *)
\* str.lower() on the letters a level can hold.
LowerChar(c) ==
    LET upper == <<"A","B","C","D","E","F","G","H","I","J","K","L","M",
                   "N","O","P","Q","R","S","T","U","V","W","X","Y","Z">>
        lower == <<"a","b","c","d","e","f","g","h","i","j","k","l","m",
                   "n","o","p","q","r","s","t","u","v","w","x","y","z">>
    IN IF \E n \in 1..26 : upper[n] = c
       THEN lower[CHOOSE n \in 1..26 : upper[n] = c]
       ELSE c

RECURSIVE Lower(_)
Lower(s) ==
    IF Len(s) = 0 THEN ""
    ELSE LowerChar(SubSeq(s, 1, 1)) \o Lower(SubSeq(s, 2, Len(s)))

\* json.dumps of a str: the characters that are escaped among those the
\* records can hold (printable ASCII).
EscapeChar(c) ==
    IF c = "\"" THEN "\\\""
    ELSE IF c = "\\" THEN "\\\\"
    ELSE c

\* The characters s[lo..hi] escaped, joined by halves.
RECURSIVE EscapeRange(_, _, _)
EscapeRange(s, lo, hi) ==
    IF lo > hi THEN ""
    ELSE IF lo = hi THEN EscapeChar(SubSeq(s, lo, lo))
    ELSE LET mid == (lo + hi) \div 2
         IN EscapeRange(s, lo, mid) \o EscapeRange(s, mid + 1, hi)

\* Some character of s is one json.dumps escapes.
NeedsEscape(s) == \E n \in 1..Len(s) : SubSeq(s, n, n) \in {"\"", "\\"}

json_string(s) ==
    "\"" \o (IF NeedsEscape(s) THEN EscapeRange(s, 1, Len(s)) ELSE s) \o "\""

\* json.dumps of a dict of str values, given as its items in insertion
\* order, with separators=(item_separator, key_separator).
RECURSIVE json_items(_, _, _, _)
json_items(items, n, item_separator, key_separator) ==
    IF n > Len(items) THEN ""
    ELSE (IF n > 1 THEN item_separator ELSE "")
         \o json_string(items[n][1]) \o key_separator \o json_string(items[n][2])
         \o json_items(items, n + 1, item_separator, key_separator)

json_dumps(items, item_separator, key_separator) ==
    "{" \o json_items(items, 1, item_separator, key_separator) \o "}"

\* json.loads of the text of an object whose values are strings: the items
\* in the order they are read, or a failure.
UnescapeChar(c) ==
    IF c = "n" THEN "\n" ELSE IF c = "t" THEN "\t" ELSE c

IsSpace(c) == c \in {" ", "\n", "\t", "\r"}

CharAt(s, n) == IF n >= 1 /\ n <= Len(s) THEN SubSeq(s, n, n) ELSE ""

RECURSIVE SkipSpace(_, _)
SkipSpace(s, n) == IF IsSpace(CharAt(s, n)) THEN SkipSpace(s, n + 1) ELSE n

\* The number of backslashes that stand directly before s[n].
RECURSIVE BackslashesBefore(_, _)
BackslashesBefore(s, n) ==
    IF CharAt(s, n - 1) # "\\" THEN 0 ELSE 1 + BackslashesBefore(s, n - 1)

\* s[n] is not escaped by a backslash before it.
Unescaped(s, n) == BackslashesBefore(s, n) % 2 = 0

\* The positions of the quotes that open or close a string.
Quotes(s) == {n \in 1..Len(s) : CharAt(s, n) = "\"" /\ Unescaped(s, n)}

\* What s[n] contributes to the value of the string it stands in.
DecodedChar(s, n) ==
    IF ~Unescaped(s, n) THEN UnescapeChar(CharAt(s, n))
    ELSE IF CharAt(s, n) = "\\" THEN ""
    ELSE CharAt(s, n)

\* The characters s[lo..hi] decoded, joined by halves.
RECURSIVE DecodeRange(_, _, _)
DecodeRange(s, lo, hi) ==
    IF lo > hi THEN ""
    ELSE IF lo = hi THEN DecodedChar(s, lo)
    ELSE LET mid == (lo + hi) \div 2
         IN DecodeRange(s, lo, mid) \o DecodeRange(s, mid + 1, hi)

\* The string that opens with the quote s[n]: its value and the position
\* after its closing quote.
ParseString(s, quotes, n) ==
    LET closing == {m \in quotes : m > n}
        close == CHOOSE m \in closing : \A o \in closing : m <= o
    IN IF n \notin quotes \/ closing = {}
       THEN [ok |-> FALSE, value |-> "", next |-> n]
       ELSE [ok |-> TRUE, value |-> DecodeRange(s, n + 1, close - 1),
             next |-> close + 1]

JsonFailure == [ok |-> FALSE, items |-> <<>>]

\* s[n] is where the next  "key": "value"  is expected.
RECURSIVE ParseMembers(_, _, _, _)
ParseMembers(s, quotes, n, acc) ==
    LET key == ParseString(s, quotes, SkipSpace(s, n))
        colon == SkipSpace(s, key.next)
        val == ParseString(s, quotes, SkipSpace(s, colon + 1))
        after == SkipSpace(s, val.next)
        items == Append(acc, <<key.value, val.value>>)
    IN IF ~key.ok \/ CharAt(s, colon) # ":" THEN JsonFailure
       ELSE IF ~val.ok THEN JsonFailure
       ELSE IF CharAt(s, after) = ","
            THEN ParseMembers(s, quotes, after + 1, items)
       ELSE IF CharAt(s, after) = "}" /\ SkipSpace(s, after + 1) = Len(s) + 1
            THEN [ok |-> TRUE, items |-> items]
       ELSE JsonFailure

json_loads(s) ==
    LET open == SkipSpace(s, 1)
    IN IF CharAt(s, open) # "{" THEN JsonFailure
       ELSE IF CharAt(s, SkipSpace(s, open + 1)) = "}"
                 /\ SkipSpace(s, SkipSpace(s, open + 1) + 1) = Len(s) + 1
            THEN [ok |-> TRUE, items |-> <<>>]
       ELSE ParseMembers(s, Quotes(s), open + 1, <<>>)

\* The dict json.loads builds from the items: its keys, and the value of a
\* key (the last item with that key).
ObjectKeys(items) == {items[n][1] : n \in DOMAIN items}

ObjectGet(items, key) ==
    LET last == CHOOSE n \in DOMAIN items :
                   /\ items[n][1] = key
                   /\ \A m \in DOMAIN items : items[m][1] = key => m <= n
    IN items[last][2]

\* The items of a record dict, in the order the code inserts the modelled
\* keys: generate_base_log's timestamp, level and service, then message,
\* then (generator) raw.
RecordKeys == <<"timestamp", "level", "service", "message", "raw">>

RECURSIVE ItemsFrom(_, _)
ItemsFrom(entry, n) ==
    IF n > Len(RecordKeys) THEN <<>>
    ELSE (IF RecordKeys[n] \in DOMAIN entry
          THEN << <<RecordKeys[n], entry[RecordKeys[n]]>> >>
          ELSE <<>>)
         \o ItemsFrom(entry, n + 1)

Items(entry) == ItemsFrom(entry, 1)

\* json.dumps(log_entry) of the modelled fields (default separators).
JsonDumps(entry) == json_dumps(Items(entry), ", ", ": ")

\* MockLogGenerator.output_log: the line printed to stdout.
StdoutLine(log_entry) ==
    [sink |-> "stdout", line |-> JsonDumps(log_entry)]

\* Variant of KafkaMessage: the key is built from the lower-cased level.
KafkaMessageLoweredKey(log_entry) ==
    [sink |-> "kafka",
     key |-> log_entry.service \o "-" \o Lower(log_entry.level),
     value |-> [message |-> JsonDumps(log_entry),
                level |-> Lower(log_entry.level),
                stream |-> "stdout",
                tag |-> "kubernetes.var.log.containers",
                source_type |-> "kubernetes_logs"]]

\* MockLogForwarder.send_log: the key and the transformed value published.
KafkaMessage(log_entry) ==
    [sink |-> "kafka",
     key |-> log_entry.service \o "-" \o log_entry.level,
     value |-> [message |-> JsonDumps(log_entry),
                level |-> Lower(log_entry.level),
                stream |-> "stdout",
                tag |-> "kubernetes.var.log.containers",
                source_type |-> "kubernetes_logs"]]

(* ------------------------------------------- records with all their text *)
\* datetime.utcnow().strftime("%Y-%m-%dT%H:%M:%S.%fZ"): two instants.
Timestamps == {"2024-05-01T10:00:00.000001Z", "2024-05-01T10:00:00.000002Z"}

\* Variant of raw_log: the service is left out.
raw_log_without_service(log_entry) ==
    << <<"timestamp", log_entry.timestamp>>, <<"level", log_entry.level>>,
       <<"message", log_entry.message>> >>

\* raw_log of generate_pattern_log / generate_normal_log (generator).
raw_log(log_entry) ==
    << <<"timestamp", log_entry.timestamp>>, <<"level", log_entry.level>>,
       <<"message", log_entry.message>>, <<"service", log_entry.service>> >>

\* The record with the timestamp generate_base_log gave it.
Stamped(log_entry, ts) ==
    [timestamp |-> ts, level |-> log_entry.level,
     service |-> log_entry.service, message |-> log_entry.message]

\* The generator's record as returned:
\* log["raw"] = json.dumps(raw_log, separators=(',', ':'))
WithRaw(log_entry) ==
    [timestamp |-> log_entry.timestamp, level |-> log_entry.level,
     service |-> log_entry.service, message |-> log_entry.message,
     raw |-> json_dumps(raw_log(log_entry), ",", ":")]

\* The records an emitter returns for the records logs, with timestamp and
\* (generator) raw.
FullLogs(em, logs) ==
    { IF em = "generator" THEN WithRaw(Stamped(l, ts)) ELSE Stamped(l, ts) :
        l \in logs, ts \in Timestamps }

(* ----------------------------------------------------------------- state *)
VARIABLES
    emitter,              \* "generator" | "forwarder": which script runs
    entry,                \* "start": start() is run; "burst": one direct call of generate_pattern_burst
    mode,                 \* self.mode (generator) / start's mode argument (forwarder)
    burst_interval,       \* self.burst_interval (generator); the literal 10 (forwarder)
    generation_interval,  \* self.generation_interval (generator), by its sign
    producer,             \* forwarder: "none" | "open" | "closed"
    running,              \* self.running
    pc,                   \* position in the code
    cycle_counter,        \* cycle_counter (generator) / burst_counter (forwarder)
    i,                    \* iterations of  for _ in range(5)  finished in this cycle
    pattern_name,         \* argument of generate_pattern_burst
    countArg,             \* argument count: <<>> is None, <<n>> is n
    count,                \* count after the automatic rule
    k,                    \* iterations of  for _ in range(count)  finished
    log,                  \* the record of the current iteration
    out,                  \* what the sink received for it: <<>> or <<m>>
    testIdx,              \* index into the list test_all_patterns iterates
    remaining,            \* generator: remaining_patterns not yet iterated
    exitCode,             \* <<>> while running, <<c>> once the process has ended
    result,               \* <<>> or <<b>>: the value start() returned
    cause,                \* why the run ended
    raised,               \* the exception travelling to a handler, "" if none
    burstsStarted,        \* history: calls of generate_pattern_burst so far
    testCalls             \* history: calls test_all_patterns made, per pattern

vars == <<emitter, entry, mode, burst_interval, generation_interval, producer,
          running, pc, cycle_counter, i, pattern_name, countArg, count, k, log,
          out, testIdx, remaining, exitCode, result, cause, raised,
          burstsStarted, testCalls>>

config == <<emitter, entry, mode, burst_interval, generation_interval>>

Modes == {"test", "continuous", "batch"}

\* os.getenv('BURST_INTERVAL', '10')
DefaultBurstInterval == 10

\* LOG_GENERATION_INTERVAL by sign: time.sleep raises ValueError below zero.
GenerationIntervals == {-1, 1}

\* Which driver the run is in.
Driver == IF entry = "burst" THEN "api" ELSE mode

Init ==
    /\ emitter \in {"generator", "forwarder"}
    /\ entry \in {"start", "burst"}
    /\ mode \in Modes
    /\ IF emitter = "generator" /\ entry = "start" /\ mode = "continuous"
       THEN /\ burst_interval \in (0..MaxBurstInterval) \cup {DefaultBurstInterval}
            /\ generation_interval \in GenerationIntervals
       ELSE \* neither is read outside the generator's continuous driver
            /\ burst_interval =
                 (IF emitter = "generator" THEN DefaultBurstInterval
                                           ELSE ForwarderBurstEvery)
            /\ generation_interval = 1
    /\ IF entry = "burst"
       THEN /\ pc = "burst_entry"
            /\ pattern_name \in PatternNames
            /\ countArg \in {<<n>> : n \in 0..MaxExplicitCount}
                              \cup (IF emitter = "generator" THEN {<<>>} ELSE {})
            /\ producer = (IF emitter = "forwarder" THEN "open" ELSE "none")
            \* the forwarder has no mode attribute: one value is enough
            /\ emitter = "forwarder" => mode = "continuous"
       ELSE /\ pc = "init"
            /\ pattern_name = ""
            /\ countArg = <<>>
            /\ producer = "none"
    /\ running = FALSE
    /\ cycle_counter = 0
    /\ i = 0
    /\ count = 0
    /\ k = 0
    /\ log = NoLog
    /\ out = <<>>
    /\ testIdx = 0
    /\ remaining = {}
    /\ exitCode = <<>>
    /\ result = <<>>
    /\ cause = ""
    /\ raised = ""
    /\ burstsStarted = 0
    /\ testCalls = [p \in PatternNames |-> 0]

(* ------------------------------------------------------- ends of the run *)
\* MockLogGenerator.stop / MockLogForwarder.stop: the producer afterwards.
StoppedProducer == IF producer = "open" THEN "closed" ELSE producer

\* start() returns r after stop() has run (the generator's finally clause,
\* the forwarder's last statements); __main__ exits 1 when r is False.
ReturnFromStart(r, why) ==
    /\ pc' = "exited"
    /\ running' = FALSE
    /\ producer' = StoppedProducer
    /\ result' = <<r>>
    /\ exitCode' = <<IF r THEN 0 ELSE 1>>
    /\ cause' = why

\* Variant of Handler: no try statement anywhere, nothing catches.
HandlerNoTry(em, ent, md) == "none"

\* Where an exception that is not caught where it is raised ends up:
\*   "cycle": the try of the generator's cycle (lines 383-385);
\*   "start": the generator's start (lines 450-452), which returns False after
\*            its finally clause has run stop();
\*   "none":  nothing catches it (the forwarder's continuous_generation has no
\*            try and its start catches KeyboardInterrupt only; a direct call
\*            of generate_pattern_burst has no handler around it).
Handler(em, ent, md) ==
    IF ent = "start" /\ em = "generator"
    THEN (IF md = "continuous" THEN "cycle" ELSE "start")
    ELSE "none"

\* The locals of generate_pattern_burst are gone once its frame is left.
DropFrame ==
    /\ pattern_name' = ""
    /\ countArg' = <<>>
    /\ count' = 0
    /\ k' = 0

\* The exception e travels to its handler, leaving the frames in between.
Propagate(e) ==
    /\ raised' = e
    /\ DropFrame
    /\ log' = NoLog
    /\ out' = <<>>
    /\ CASE Handler(emitter, entry, mode) = "cycle" ->
              /\ pc' = "backoff"
              /\ UNCHANGED <<running, producer, result, exitCode, cause>>
         [] Handler(emitter, entry, mode) = "start" ->
              ReturnFromStart(FALSE, "exception")
         [] OTHER ->
              /\ pc' = "exited"
              /\ exitCode' = <<1>>
              /\ cause' = "exception"
              /\ UNCHANGED <<running, producer, result>>

\* Variant of SinkRaises: the sink has no try, its failure reaches the caller.
SinkRaisesOnFailure(em, ok) == ~ok

\* output_log / send_log catch Exception themselves (lines 333-334 / 284-285):
\* a failure of the sink never reaches the caller.
SinkRaises(em, ok) == FALSE

\* What the sink received: nothing when the record is dropped.  A forwarder
\* whose producer is not open fails in producer.send.
SinkReceives(em, prod, log_entry, ok) ==
    IF em = "generator"
    THEN (IF ok THEN <<StdoutLine(log_entry)>> ELSE <<>>)
    ELSE (IF ok /\ prod = "open" THEN <<KafkaMessage(log_entry)>> ELSE <<>>)

(* ------------------------------------------------------------- start() *)
\* MockLogGenerator.start up to the call of the driver.
GeneratorStart ==
    /\ pc = "init" /\ emitter = "generator"
    /\ IF mode = "test"
       THEN /\ running' = TRUE /\ pc' = "test_iter" /\ testIdx' = 1
            /\ UNCHANGED <<producer, result, exitCode, cause>>
       ELSE IF mode = "continuous"
       THEN /\ running' = TRUE /\ pc' = "loop_top" /\ testIdx' = testIdx
            /\ UNCHANGED <<producer, result, exitCode, cause>>
       ELSE /\ ReturnFromStart(FALSE, "unknown_mode") /\ testIdx' = testIdx
    /\ UNCHANGED <<config, testCalls, cycle_counter, i, pattern_name, countArg, count, k,
                   log, out, remaining, raised, burstsStarted>>

\* Variant of connect_kafka: it reports success whatever happened.
connect_kafka_always_true(connected) == TRUE

\* MockLogForwarder.connect_kafka: True when KafkaProducer(...) was built,
\* False when it raised.
connect_kafka(connected) == connected

\* MockLogForwarder.start up to the call of the driver; the connection is
\* established or not, self.producer is set only when it is.
ForwarderStart ==
    /\ pc = "init" /\ emitter = "forwarder"
    /\ \E connected \in BOOLEAN :
         LET opened == IF connected THEN "open" ELSE "none"
         IN
         IF ~connect_kafka(connected)
         THEN /\ pc' = "exited" /\ result' = <<FALSE>> /\ exitCode' = <<1>>
              /\ cause' = "connect_failed"
              /\ UNCHANGED <<running, producer, testIdx>>
         ELSE IF mode = "test"
         THEN /\ producer' = opened /\ running' = TRUE
              /\ pc' = "test_iter" /\ testIdx' = 1
              /\ UNCHANGED <<result, exitCode, cause>>
         ELSE IF mode = "continuous"
         THEN /\ producer' = opened /\ running' = TRUE
              /\ pc' = "loop_top" /\ testIdx' = testIdx
              /\ UNCHANGED <<result, exitCode, cause>>
         ELSE \* neither branch runs: stop(), return True
              /\ pc' = "exited" /\ running' = FALSE
              /\ producer' = (IF connected THEN "closed" ELSE "none")
              /\ result' = <<TRUE>> /\ exitCode' = <<0>>
              /\ cause' = "unknown_mode" /\ testIdx' = testIdx
    /\ UNCHANGED <<config, testCalls, cycle_counter, i, pattern_name, countArg, count, k,
                   log, out, remaining, raised, burstsStarted>>

(* ------------------------------------------------- continuous_generation *)
\* Variant of BurstDue: the burst falls on the cycle after a multiple.
BurstDueOnRemainderOne(counter, interval) == counter % interval = 1 % interval

\* Variant of BurstDue: the test uses the counter before its increment.
BurstDueBeforeIncrement(counter, interval) == (counter - 1) % interval = 0

\* if cycle_counter % self.burst_interval == 0   (generator, line 374)
\* if burst_counter % 10 == 0                    (forwarder, line 313)
BurstDue(counter, interval) == counter % interval = 0

\* Variant of BreakNormalLoop: the flag is not looked at.
BreakNormalLoopNever(flag) == FALSE

\* if not self.running: break
BreakNormalLoop(flag) == ~flag

\* for _ in range(5): the loop is over after NormalsPerCycle iterations.
NormalLoopDone(done) == done >= NormalsPerCycle

\* while self.running: the test at the top of a cycle.
LoopTop ==
    /\ pc = "loop_top"
    /\ IF running
       THEN /\ cycle_counter < MaxCycles /\ burstsStarted < MaxBursts
            /\ pc' = "normal_check"
            /\ i' = 0
            /\ UNCHANGED <<running, producer, result, exitCode, cause>>
       ELSE \* the loop ends, continuous_generation returns, start stops
            /\ ReturnFromStart(TRUE, "loop_ended")
            /\ i' = i
    /\ UNCHANGED <<config, testCalls, cycle_counter, pattern_name, countArg, count, k,
                   log, out, testIdx, remaining, raised, burstsStarted>>

\* One pass through the head of  for _ in range(5):  the loop ends, or breaks
\* on  not self.running,  or generate_normal_log() builds the next record and
\* output_log / send_log hands it to the sink.
NormalCheck ==
    /\ pc = "normal_check"
    /\ IF NormalLoopDone(i) \/ BreakNormalLoop(running)
       THEN /\ pc' = "cycle_count"
            /\ UNCHANGED <<log, out, raised, running, producer, result,
                           exitCode, cause, pattern_name, countArg, count, k>>
       ELSE \E ok \in BOOLEAN :
            IF SinkRaises(emitter, ok)
            THEN Propagate("SinkError")
            ELSE /\ log' \in NormalLogs(emitter)
                 /\ out' = SinkReceives(emitter, producer, log', ok)
                 /\ pc' = "normal_sleep"
                 /\ UNCHANGED <<raised, running, producer, result, exitCode,
                                cause, pattern_name, countArg, count, k>>
    /\ UNCHANGED <<config, testCalls, cycle_counter, i, testIdx, remaining, burstsStarted>>

\* time.sleep(self.generation_interval) / time.sleep(random.uniform(0.5, 2.0))
\* at the end of the iteration.  The generator's sleep raises ValueError when
\* generation_interval is negative.
NormalSleep ==
    /\ pc = "normal_sleep"
    /\ IF generation_interval < 0
       THEN Propagate("ValueError") /\ i' = i
       ELSE /\ pc' = "normal_check"
            /\ i' = i + 1
            /\ log' = NoLog
            /\ out' = <<>>
            /\ UNCHANGED <<raised, running, producer, result, exitCode, cause,
                           pattern_name, countArg, count, k>>
    /\ UNCHANGED <<config, testCalls, cycle_counter, testIdx, remaining, burstsStarted>>

\* cycle_counter += 1, then the burst test.  BURST_INTERVAL=0 makes the
\* generator's modulo raise ZeroDivisionError.  A due burst picks the pattern
\* and calls generate_pattern_burst: without count in the generator, with
\* threshold + random.randint(1, 5) in the forwarder.
CycleCount ==
    /\ pc = "cycle_count"
    /\ cycle_counter' = cycle_counter + 1
    /\ i' = 0                       \* the for loop and its iterator are gone
    /\ IF burst_interval = 0
       THEN Propagate("ZeroDivisionError")
       ELSE /\ IF BurstDue(cycle_counter', burst_interval)
               THEN /\ pc' = "burst_entry"
                    /\ pattern_name' \in PatternNames
                    /\ IF emitter = "generator"
                       THEN countArg' = <<>>
                       ELSE countArg' \in
                              {<<c>> : c \in ForwarderBurstCounts(patterns[pattern_name'])}
               ELSE /\ pc' = "loop_top"
                    /\ UNCHANGED <<pattern_name, countArg>>
            /\ UNCHANGED <<running, producer, result, exitCode, cause, raised,
                           count, k, log, out>>
    /\ UNCHANGED <<config, testCalls, testIdx, remaining, burstsStarted>>

\* time.sleep(5) after a burst.
Cooldown ==
    /\ pc = "cooldown"
    /\ pc' = "loop_top"
    /\ UNCHANGED <<config, testCalls, producer, running, cycle_counter, i, pattern_name,
                   countArg, count, k, log, out, testIdx, remaining, exitCode,
                   result, cause, raised, burstsStarted>>

\* except Exception: log the error, time.sleep(10), next cycle (generator).
Backoff ==
    /\ pc = "backoff"
    /\ pc' = "loop_top"
    /\ raised' = ""
    /\ UNCHANGED <<config, testCalls, producer, running, cycle_counter, i, pattern_name,
                   countArg, count, k, log, out, testIdx, remaining, exitCode,
                   result, cause, burstsStarted>>

(* ------------------------------------------------ generate_pattern_burst *)
\* Variant of BurstCount: the test is  if not count,  so 0 counts as None.
BurstCountFalsy(arg, md, pattern_config) ==
    IF arg = <<>> \/ arg = <<0>>
    THEN GeneratorAutoCounts(md, pattern_config)
    ELSE {arg[1]}

\* if count is None: the automatic rule; otherwise the argument as it is.
BurstCount(arg, md, pattern_config) ==
    IF arg = <<>>
    THEN GeneratorAutoCounts(md, pattern_config)
    ELSE {arg[1]}

\* The head of generate_pattern_burst: count is the argument, or the
\* automatic count (generator only) when the argument is None.
BurstEntry ==
    /\ pc = "burst_entry"
    /\ count' \in BurstCount(countArg, mode, patterns[pattern_name])
    /\ k' = 0
    /\ burstsStarted' = burstsStarted + 1
    /\ pc' = "burst_loop"
    /\ UNCHANGED <<config, testCalls, producer, running, cycle_counter, i, pattern_name,
                   countArg, log, out, testIdx, remaining, exitCode, result,
                   cause, raised>>

\* for _ in range(count): the loop is over after count iterations.
BurstLoopDone(done, n) == done >= n

\* One pass through the head of  for _ in range(count):  the burst returns
\* to its caller, or generate_pattern_log builds the next record and
\* output_log / send_log hands it to the sink.
BurstLoop ==
    /\ pc = "burst_loop"
    /\ IF BurstLoopDone(k, count)
       THEN /\ pc' = CASE Driver = "continuous" -> "cooldown"
                       [] Driver = "test" -> "test_pause"
                       [] OTHER -> "exited"
            /\ cause' = (IF Driver = "api" THEN "returned" ELSE cause)
            /\ DropFrame
            /\ UNCHANGED <<log, out, raised, running, producer, result, exitCode>>
       ELSE \E ok \in BOOLEAN :
            IF SinkRaises(emitter, ok)
            THEN Propagate("SinkError")
            ELSE /\ log' \in PatternLogs(emitter, mode, pattern_name)
                 /\ out' = SinkReceives(emitter, producer, log', ok)
                 /\ pc' = "burst_sleep"
                 /\ UNCHANGED <<raised, running, producer, result, exitCode,
                                cause, pattern_name, countArg, count, k>>
    /\ UNCHANGED <<config, testCalls, cycle_counter, i, testIdx, remaining, burstsStarted>>

\* time.sleep(0.1) at the end of the iteration.
BurstSleep ==
    /\ pc = "burst_sleep"
    /\ pc' = "burst_loop"
    /\ k' = k + 1
    /\ log' = NoLog
    /\ out' = <<>>
    /\ UNCHANGED <<config, testCalls, producer, running, cycle_counter, i, pattern_name,
                   countArg, count, testIdx, remaining, exitCode, result,
                   cause, raised, burstsStarted>>

(* ----------------------------------------------------- test_all_patterns *)
\* Variant of TestList: the generator walks the catalog in its own order.
TestListCatalogOrder == PatternOrder

\* The list the first loop of test_all_patterns walks: e2e_test_patterns in
\* the generator, self.patterns.items() in the forwarder.
TestList == IF emitter = "generator" THEN e2e_test_patterns ELSE PatternOrder

\* Variant of remaining_patterns: the listed names are not taken out.
remaining_patterns_all(listed) == PatternNames

\* remaining_patterns = set(self.patterns.keys()) - set(e2e_test_patterns)
remaining_patterns(listed) == PatternNames \ Range(listed)

\* One more call of generate_pattern_burst(name) by test_all_patterns.
Called(calls, name) == [calls EXCEPT ![name] = @ + 1]

\* The count test_all_patterns passes to generate_pattern_burst.
TestCountArg(name) ==
    IF emitter = "generator" THEN <<>> ELSE <<ForwarderTestCount(patterns[name])>>

\* The head of the first for loop: the next listed pattern is burst (the
\* generator skips a name that is not in the catalog), or the list is done.
\* The generator then computes remaining_patterns; the forwarder's
\* test_all_patterns returns and start stops.
TestIter ==
    /\ pc = "test_iter"
    /\ IF testIdx <= Len(TestList)
       THEN /\ IF TestList[testIdx] \in PatternNames
               THEN /\ pc' = "burst_entry"
                    /\ pattern_name' = TestList[testIdx]
                    /\ countArg' = TestCountArg(TestList[testIdx])
                    /\ testIdx' = testIdx
                    /\ testCalls' = Called(testCalls, TestList[testIdx])
               ELSE /\ testIdx' = testIdx + 1
                    /\ UNCHANGED <<pc, pattern_name, countArg, testCalls>>
            /\ UNCHANGED <<remaining, running, producer, result, exitCode, cause>>
       ELSE IF emitter = "generator"
       THEN /\ pc' = "test_rest"
            /\ remaining' = remaining_patterns(e2e_test_patterns)
            /\ UNCHANGED <<testIdx, pattern_name, countArg, running, producer,
                           result, exitCode, cause, testCalls>>
       ELSE /\ ReturnFromStart(TRUE, "test_done")
            /\ UNCHANGED <<testIdx, pattern_name, countArg, remaining,
                           testCalls>>
    /\ UNCHANGED <<config, cycle_counter, i, count, k, log, out, raised,
                   burstsStarted>>

\* The generator's second loop, over the set remaining_patterns: a set is
\* iterated in an order the code does not fix.
TestRest ==
    /\ pc = "test_rest"
    /\ IF remaining # {}
       THEN /\ pattern_name' \in remaining
            /\ remaining' = remaining \ {pattern_name'}
            /\ countArg' = <<>>
            /\ pc' = "burst_entry"
            /\ testCalls' = Called(testCalls, pattern_name')
            /\ UNCHANGED <<running, producer, result, exitCode, cause>>
       ELSE /\ ReturnFromStart(TRUE, "test_done")
            /\ UNCHANGED <<pattern_name, countArg, remaining, testCalls>>
    /\ UNCHANGED <<config, cycle_counter, i, count, k, log, out, testIdx,
                   raised, burstsStarted>>

\* time.sleep(1) / time.sleep(2) after a burst of test_all_patterns.
TestPause ==
    /\ pc = "test_pause"
    /\ IF testIdx <= Len(TestList)
       THEN pc' = "test_iter" /\ testIdx' = testIdx + 1
       ELSE pc' = "test_rest" /\ testIdx' = testIdx
    /\ UNCHANGED <<config, testCalls, producer, running, cycle_counter, i, pattern_name,
                   countArg, count, k, log, out, remaining, exitCode, result,
                   cause, raised, burstsStarted>>

(* ------------------------------------------------ events from outside *)
InStart == entry = "start" /\ pc \notin {"init", "exited"}

\* SIGINT / SIGTERM: signal_handler calls sys.exit(0), so SystemExit is raised
\* where the main thread is.  No except clause matches it; the generator's
\* finally clause runs stop(), the forwarder has none.
Signal ==
    /\ InStart
    /\ pc' = "exited"
    /\ exitCode' = <<0>>
    /\ cause' = "signal"
    /\ raised' = "SystemExit"
    /\ running' = (IF emitter = "generator" THEN FALSE ELSE running)
    /\ DropFrame
    /\ log' = NoLog
    /\ out' = <<>>
    /\ UNCHANGED <<config, testCalls, producer, cycle_counter, i, testIdx, remaining,
                   result, burstsStarted>>

\* An Exception raised by a statement of the driver outside the sink's own
\* try (MemoryError, OSError, ...): see Propagate.  The generator's handler
\* (pc = "backoff") and the loop test are left out: an exception there is not
\* inside the cycle's try.  The call of generate_pattern_burst and the head
\* of the function count as one place.
RaiseException ==
    /\ InStart
    /\ pc \notin {"loop_top", "backoff", "burst_entry"}
    /\ Propagate("Exception")
    /\ UNCHANGED <<config, testCalls, cycle_counter, i, testIdx, remaining, burstsStarted>>

\* stop() called on the object while the continuous driver runs (from
\* another thread): the driver is the only reader of the flag.
StopCalled ==
    /\ InStart
    /\ Driver = "continuous"
    /\ running
    /\ running' = FALSE
    /\ producer' = StoppedProducer
    /\ UNCHANGED <<config, testCalls, pc, cycle_counter, i, pattern_name, countArg, count,
                   k, log, out, testIdx, remaining, exitCode, result, cause,
                   raised, burstsStarted>>

Next ==
    \/ GeneratorStart
    \/ ForwarderStart
    \/ LoopTop
    \/ NormalCheck
    \/ NormalSleep
    \/ CycleCount
    \/ Cooldown
    \/ Backoff
    \/ BurstEntry
    \/ BurstLoop
    \/ BurstSleep
    \/ TestIter
    \/ TestRest
    \/ TestPause
    \/ Signal
    \/ RaiseException
    \/ StopCalled

Spec == Init /\ [][Next]_vars

\* The process as __main__ runs it: nothing outside start() calls stop(), so
\* the flag is written by start() and by its own call of stop() only.
ScriptNext ==
    \/ GeneratorStart
    \/ ForwarderStart
    \/ LoopTop
    \/ NormalCheck
    \/ NormalSleep
    \/ CycleCount
    \/ Cooldown
    \/ Backoff
    \/ BurstEntry
    \/ BurstLoop
    \/ BurstSleep
    \/ TestIter
    \/ TestRest
    \/ TestPause
    \/ Signal
    \/ RaiseException

ScriptSpec == Init /\ [][ScriptNext]_vars

(* ------------------------------------------- one record through the sink *)
\* One record is generated and handed to the sink, with all its text:
\* the body of one iteration of a burst or of the normal loop.
RecordInit ==
    /\ emitter \in {"generator", "forwarder"}
    /\ entry = "record"
    /\ mode \in {"test", "continuous"}
    /\ burst_interval = DefaultBurstInterval
    /\ generation_interval = 1
    /\ producer = (IF emitter = "forwarder" THEN "open" ELSE "none")
    /\ running = TRUE
    /\ pc = "record_idle"
    /\ cycle_counter = 0
    /\ i = 0
    /\ pattern_name = ""
    /\ countArg = <<>>
    /\ count = 0
    /\ k = 0
    /\ log = NoLog
    /\ out = <<>>
    /\ testIdx = 0
    /\ remaining = {}
    /\ exitCode = <<>>
    /\ result = <<>>
    /\ cause = ""
    /\ raised = ""
    /\ burstsStarted = 0
    /\ testCalls = [p \in PatternNames |-> 0]

\* log = self.generate_pattern_log(pattern_name, pattern_config), then
\* self.output_log(log) / self.send_log(log).
RecordPattern ==
    /\ pc = "record_idle"
    /\ pattern_name' \in PatternNames
    /\ log' \in FullLogs(emitter, PatternLogs(emitter, mode, pattern_name'))
    /\ \E ok \in BOOLEAN : out' = SinkReceives(emitter, producer, log', ok)
    /\ pc' = "record_emitted"
    /\ UNCHANGED <<config, testCalls, producer, running, cycle_counter, i,
                   countArg, count, k, testIdx, remaining, exitCode, result,
                   cause, raised, burstsStarted>>

\* log = self.generate_normal_log(), then self.output_log(log) /
\* self.send_log(log).
RecordNormal ==
    /\ pc = "record_idle"
    /\ log' \in FullLogs(emitter, NormalLogs(emitter))
    /\ \E ok \in BOOLEAN : out' = SinkReceives(emitter, producer, log', ok)
    /\ pc' = "record_emitted"
    /\ UNCHANGED <<config, testCalls, producer, running, cycle_counter, i,
                   pattern_name, countArg, count, k, testIdx, remaining,
                   exitCode, result, cause, raised, burstsStarted>>

\* The iteration is over.
RecordDone ==
    /\ pc = "record_emitted"
    /\ pc' = "record_idle"
    /\ pattern_name' = ""
    /\ log' = NoLog
    /\ out' = <<>>
    /\ UNCHANGED <<config, testCalls, producer, running, cycle_counter, i,
                   countArg, count, k, testIdx, remaining, exitCode, result,
                   cause, raised, burstsStarted>>

RecordNext ==
    \/ RecordPattern
    \/ RecordNormal
    \/ RecordDone

RecordSpec == RecordInit /\ [][RecordNext]_vars

(* ======================================================================= *)
(*                               Properties                                *)
(* ======================================================================= *)
\* A pattern record has just been generated and handed to the sink.
PatternRecordEmitted == pc = "burst_sleep"

\* A normal record has just been generated and handed to the sink.
NormalRecordEmitted == pc = "normal_sleep"

\* generate_pattern_burst is running and was called without count.
AutoBurst == pc \in {"burst_loop", "burst_sleep"} /\ countArg = <<>>

\* This step is generate_pattern_burst returning to its caller.
BurstReturns ==
    /\ pc = "burst_loop"
    /\ \/ pc' \in {"cooldown", "test_pause"}
       \/ pc' = "exited" /\ cause' = "returned"

(* ---- C1 --------------------------------------------------------------- *)
\* C1: for every catalog pattern whose conditions define log_level, every
\* record generate_pattern_log produces for it has that level, in every mode
\* of the generator and in the forwarder.
C1_LevelIsConditionLevel ==
    (PatternRecordEmitted /\ "log_level" \in DOMAIN patterns[pattern_name].conditions)
        => log.level = patterns[pattern_name].conditions.log_level

(* ---- C2 --------------------------------------------------------------- *)
\* C2: the service of every record generate_pattern_log produces for a
\* pattern is a member of that pattern's services list, in every mode.
C2_ServiceIsDeclared ==
    PatternRecordEmitted
        => log.service \in Range(patterns[pattern_name].services)

(* ---- C3 --------------------------------------------------------------- *)
\* C3: in every mode and for every catalog pattern, the message of a pattern
\* record contains at least one of the pattern's keywords as a literal
\* substring, the generic "Service log: {keyword}" fallback included.
C3_MessageHasKeyword ==
    PatternRecordEmitted
        => \E kw \in Range(patterns[pattern_name].keywords) :
               Contains(log.message, kw)

\* A test-mode record of a pattern without a bespoke test template.
C3_Witness ==
    /\ PatternRecordEmitted
    /\ emitter = "generator" /\ mode = "test"
    /\ pattern_name = "payment_failures"
    /\ log.message = "Service log: payment timeout"

(* ---- C4 --------------------------------------------------------------- *)
\* C4: in test mode, generate_pattern_burst(P) without count generates and
\* outputs exactly 2 records for every catalog pattern, whatever its
\* threshold: the count is 2, a record is generated only while fewer than 2
\* are done, and the burst returns only after 2.
C4_TestBurstIsTwo ==
    /\ []((AutoBurst /\ emitter = "generator" /\ mode = "test")
            => /\ count = TestModeCount
               /\ k <= TestModeCount
               /\ pc = "burst_sleep" => k < TestModeCount)
    /\ [][(BurstReturns /\ countArg = <<>> /\ emitter = "generator" /\ mode = "test")
            => k = TestModeCount]_vars

\* A test-mode burst of a pattern with threshold 10 has done its 2 records.
C4_Witness ==
    /\ AutoBurst /\ emitter = "generator" /\ mode = "test"
    /\ pattern_name = "high_error_rate"
    /\ pc = "burst_loop" /\ k = 2

(* ---- C5 --------------------------------------------------------------- *)
\* C5: in the generator, outside test mode and without count, the number n
\* of records generate_pattern_burst(P) generates satisfies
\* threshold + 1 <= n <= threshold + 3 (threshold 5 if P defines none).
C5_AutoCountRange ==
    /\ []((AutoBurst /\ emitter = "generator" /\ mode # "test")
            => /\ count >= Threshold(patterns[pattern_name]) + 1
               /\ count <= Threshold(patterns[pattern_name]) + 3
               /\ k <= count
               /\ pc = "burst_sleep" => k < count)
    /\ [][(BurstReturns /\ countArg = <<>> /\ emitter = "generator" /\ mode # "test")
            => k = count]_vars

\* A continuous-mode burst of the driver that has done threshold + 3 records.
C5_Witness ==
    /\ AutoBurst /\ emitter = "generator" /\ Driver = "continuous"
    /\ pattern_name = "database_errors"
    /\ pc = "burst_loop" /\ count = 6 /\ k = 6

(* ---- C6 --------------------------------------------------------------- *)
\* C6: every burst the forwarder's continuous driver starts sends at least
\* threshold + 1 and at most threshold + 3 records of the chosen pattern.
C6_ForwarderBurstRange ==
    (emitter = "forwarder" /\ Driver = "continuous"
        /\ pc \in {"burst_loop", "burst_sleep"})
        => /\ count >= Threshold(patterns[pattern_name]) + 1
           /\ count <= Threshold(patterns[pattern_name]) + 3

(* ---- C7 --------------------------------------------------------------- *)
\* C7 as claimed: every burst invoked without an explicit count, in any mode
\* and for any catalog pattern, emits strictly more records than the
\* pattern's declared threshold.
C7_AutoBurstExceedsThreshold ==
    AutoBurst => count > Threshold(patterns[pattern_name])

\* C7 as amended: a burst invoked without an explicit count outside test
\* mode generates and hands to the sink strictly more records than the
\* pattern's declared threshold; in test mode it generates exactly 2, which
\* is more than the threshold only for the patterns whose threshold is 1.
\* The bursts the forwarder's drivers start (always with a count) exceed the
\* threshold too.
C7_Amended ==
    /\ []((AutoBurst /\ mode # "test")
            => count > Threshold(patterns[pattern_name]))
    /\ []((AutoBurst /\ mode = "test")
            => /\ count = TestModeCount
               /\ (count > Threshold(patterns[pattern_name])
                     <=> Threshold(patterns[pattern_name]) = 1))
    /\ []((emitter = "forwarder" /\ entry = "start"
             /\ pc \in {"burst_loop", "burst_sleep"})
            => count > Threshold(patterns[pattern_name]))
    /\ [][(BurstReturns /\ (countArg = <<>> \/ entry = "start")) => k = count]_vars

\* A continuous-mode burst of the pattern with the largest threshold has
\* gone past it.
C7_Witness ==
    /\ AutoBurst /\ emitter = "generator" /\ mode = "continuous"
    /\ pattern_name = "high_warn_rate"
    /\ k = 26

(* ---- C8 --------------------------------------------------------------- *)
\* C8: in the continuous driver with burst_interval = N >= 1, absent
\* exceptions and stop requests, every cycle is exactly 5 normal records;
\* after the cycle whose number is a multiple of N exactly one burst follows
\* before the next cycle's normal emission, and no burst follows a cycle
\* whose number is not a multiple of N.
C8_CyclesAndBursts ==
    /\ []((entry = "start" /\ Driver = "continuous" /\ burst_interval >= 1)
            => /\ (pc = "cycle_count" /\ running) => i = NormalsPerCycle
               /\ pc \in {"normal_check", "normal_sleep"} => i <= NormalsPerCycle
               /\ pc = "normal_sleep" => i < NormalsPerCycle
               /\ pc \in {"loop_top", "normal_check", "normal_sleep",
                          "cycle_count", "burst_loop", "burst_sleep",
                          "cooldown", "backoff"}
                    => burstsStarted = cycle_counter \div burst_interval
               /\ pc = "burst_entry"
                    => /\ cycle_counter % burst_interval = 0
                       /\ burstsStarted + 1 = cycle_counter \div burst_interval)
    /\ [][(entry = "start" /\ Driver = "continuous" /\ burst_interval >= 1
             /\ pc = "cycle_count" /\ pc' \in {"burst_entry", "loop_top"})
            => /\ cycle_counter' = cycle_counter + 1
               /\ pc' = "burst_entry" <=> cycle_counter' % burst_interval = 0]_vars

\* burst_interval = 10: cycle 11's normal emission begins after 10 cycles
\* and exactly one burst.
C8_Witness ==
    /\ emitter = "generator" /\ Driver = "continuous" /\ entry = "start"
    /\ burst_interval = 10 /\ running
    /\ pc = "normal_check" /\ i = 0
    /\ cycle_counter = 10 /\ burstsStarted = 1

(* ---- C9 --------------------------------------------------------------- *)
\* C9: an exception raised inside a cycle of the continuous driver is caught
\* at cycle granularity and followed by the back-off; the loop never ends
\* because of an exception, in either emitter.
C9_LoopSurvivesExceptions ==
    (entry = "start" /\ Driver = "continuous")
        => /\ cause # "exception"
           /\ raised \notin {"", "SystemExit"} => pc = "backoff"

(* ---- C10 -------------------------------------------------------------- *)
\* C10: a failure of the sink while one record is emitted is caught inside
\* output_log / send_log: the record is dropped, no exception reaches the
\* caller, and the enclosing loop goes on with the remaining records of its
\* count: after a drop the next step of the loop (absent an exception or
\* signal from elsewhere) counts the iteration and goes back to the loop
\* head, and the loop is left only when its count is done (or, for the
\* normal loop, when running is cleared).
C10_SinkFailureIsContained ==
    /\ [](raised # "SinkError")
    /\ [](pc = "burst_sleep" => k < count)
    /\ [](pc = "normal_sleep" => i < NormalsPerCycle)
    /\ [][(pc \in {"burst_sleep", "normal_sleep"} /\ out = <<>>
             /\ pc' # pc /\ raised' = "")
            => /\ pc = "burst_sleep" => (pc' = "burst_loop" /\ k' = k + 1)
               /\ pc = "normal_sleep" => (pc' = "normal_check" /\ i' = i + 1)]_vars
    /\ [][BurstReturns => k = count]_vars
    /\ [][(pc = "normal_check" /\ pc' = "cycle_count")
            => (i = NormalsPerCycle \/ ~running)]_vars

\* The sink has just dropped a record of a burst that has more to go.
C10_Witness ==
    /\ pc = "burst_sleep" /\ out = <<>>
    /\ log # NoLog
    /\ k + 1 < count

(* ---- C11 -------------------------------------------------------------- *)
\* C11: whenever a forwarder run that connected shuts down, by completing
\* the test pass or by an interrupt (signal_handler) during continuous
\* generation, the producer has been flushed and closed and running is
\* False when the process exits, and the exit code is 0.
C11_ForwarderShutdownReleases ==
    (/\ emitter = "forwarder" /\ entry = "start" /\ pc = "exited"
     /\ \/ cause = "test_done"
        \/ cause = "signal" /\ mode = "continuous")
        => /\ producer = "closed"
           /\ ~running
           /\ exitCode = <<0>>

(* ---- C12 -------------------------------------------------------------- *)
\* C12: the generator's flag goes idle -> running -> stopped.  running is
\* False before start(), it becomes True only in start(), it is True whenever
\* a record has just been emitted during start(), it never becomes True
\* again, and it is False once start() has been left, on every exit path
\* (test pass completed, unknown mode, SystemExit, unexpected exception).
C12_GeneratorLifecycle ==
    /\ []((emitter = "generator" /\ pc = "init") => ~running)
    /\ []((emitter = "generator" /\ entry = "start"
             /\ (PatternRecordEmitted \/ NormalRecordEmitted)) => running)
    /\ []((emitter = "generator" /\ entry = "start" /\ pc = "exited")
             => ~running)
    /\ [][(emitter = "generator" /\ ~running /\ running') => pc = "init"]_vars

C12_Witness ==
    /\ emitter = "generator" /\ entry = "start" /\ pc = "exited"
    /\ cause = "exception" /\ burstsStarted > 0 /\ ~running

(* ---- C13 -------------------------------------------------------------- *)
\* C13: in both emitters, start() with a mode that is neither "test" nor
\* "continuous" returns False (exit code 1) and emits no record; after a
\* graceful stop (the test pass is done, or the loop has ended on the
\* cleared flag) it returns True (exit code 0).
C13_StartReportsOutcome ==
    /\ (entry = "start" /\ pc = "exited" /\ mode \notin {"test", "continuous"})
          => /\ result = <<FALSE>>
             /\ exitCode = <<1>>
             /\ burstsStarted = 0 /\ cycle_counter = 0 /\ i = 0
    /\ (entry = "start" /\ pc = "exited" /\ cause \in {"test_done", "loop_ended"})
          => /\ result = <<TRUE>>
             /\ exitCode = <<0>>

(* ---- C14 -------------------------------------------------------------- *)
\* C14: when the broker connection cannot be established (the forwarder has
\* left the start of start() without a producer), start() has returned
\* False, the exit code is 1, running was not set to True and no record has
\* been generated or sent.
C14_ConnectFailureIsFatal ==
    (emitter = "forwarder" /\ entry = "start" /\ pc # "init"
        /\ producer = "none")
        => /\ pc = "exited"
           /\ result = <<FALSE>>
           /\ exitCode = <<1>>
           /\ ~running
           /\ burstsStarted = 0 /\ cycle_counter = 0 /\ i = 0 /\ testIdx = 0
           /\ log = NoLog /\ out = <<>>

C14_Witness ==
    /\ emitter = "forwarder" /\ entry = "start" /\ pc = "exited"
    /\ cause = "connect_failed" /\ producer = "none"
    /\ result = <<FALSE>> /\ exitCode = <<1>>

(* ---- C15 -------------------------------------------------------------- *)
\* The largest count a burst of test_all_patterns can have.
MaxTestBurst ==
    LET counts == {ForwarderTestCount(patterns[p]) : p \in PatternNames}
                    \cup {TestModeCount}
    IN CHOOSE m \in counts : \A c \in counts : c <= m

\* More than the steps one pattern of the pass takes.
TestStride == 2 * MaxTestBurst + 5

\* A bound on the steps test_all_patterns still has to take: the patterns
\* not yet burst, then the rest of the current burst.
TestStepsLeft ==
    IF pc = "exited" THEN 0
    ELSE 1 + Cardinality({p \in PatternNames : testCalls[p] = 0}) * TestStride
           + (CASE pc = "burst_entry" -> 2 * MaxTestBurst + 4
                [] pc = "burst_loop" -> 2 * (count - k) + 3
                [] pc = "burst_sleep" -> 2 * (count - k) + 2
                [] pc = "test_pause" -> 2
                [] pc = "test_iter" -> 1
                [] OTHER -> 0)

\* C15: test_all_patterns terminates after one full pass in which every
\* catalog pattern gets exactly one call of generate_pattern_burst.  No
\* pattern is ever burst twice; when the pass is done every pattern has been
\* burst once; and every step of the pass lowers a non-negative bound on the
\* steps left, so the pass cannot go on for ever.
C15_TestPassRunsEachPatternOnce ==
    /\ [](Driver = "test" => \A p \in PatternNames : testCalls[p] <= 1)
    /\ []((Driver = "test" /\ pc = "exited" /\ cause = "test_done")
            => /\ \A p \in PatternNames : testCalls[p] = 1
               /\ burstsStarted = Cardinality(PatternNames))
    /\ [](Driver = "test" => TestStepsLeft >= 0)
    /\ [][(Driver = "test" /\ pc # "init") => TestStepsLeft' < TestStepsLeft]_vars

C15_Witness ==
    /\ Driver = "test" /\ emitter = "generator"
    /\ pc = "exited" /\ cause = "test_done"
    /\ \A p \in PatternNames : testCalls[p] = 1

(* ---- C16 -------------------------------------------------------------- *)
\* C16: for every record the generator emits, pattern-derived or normal,
\* JSON-decoding its raw field gives an object with exactly the keys
\* timestamp, level, message and service, each equal to the same-named field
\* of the record; the same is true of the record decoded from the line that
\* was printed.
RawRoundTrips(rec) ==
    LET decoded == json_loads(rec.raw)
    IN /\ decoded.ok
       /\ Len(decoded.items) = 4
       /\ ObjectKeys(decoded.items) = {"timestamp", "level", "message", "service"}
       /\ \A key \in ObjectKeys(decoded.items) :
             ObjectGet(decoded.items, key) = rec[key]

C16_RawRoundTrips ==
    (emitter = "generator" /\ pc = "record_emitted")
        => /\ "raw" \in DOMAIN log
           /\ RawRoundTrips(log)
           /\ out # <<>> =>
                LET printed == json_loads(out[1].line)
                IN /\ printed.ok
                   /\ "raw" \in ObjectKeys(printed.items)
                   /\ RawRoundTrips([key \in ObjectKeys(printed.items) |->
                                        ObjectGet(printed.items, key)])

C16_Witness ==
    /\ emitter = "generator" /\ pc = "record_emitted"
    /\ mode = "test" /\ pattern_name = "database_errors"
    /\ out # <<>>
    /\ json_loads(log.raw).ok

(* ---- C17 -------------------------------------------------------------- *)
\* C17: in both continuous drivers the flag is tested at the top of each
\* cycle and before each of the 5 normal emissions.  Once running is False,
\* no step emits a normal record, the normal loop is left at its next test
\* whatever the number of records still due (or by an exception or a
\* signal), and the test at the top of the next cycle ends the loop: no
\* further cycle starts.
C17_CooperativeCancellation ==
    /\ [][(Driver = "continuous" /\ InStart /\ ~running)
            => ~(NormalRecordEmitted' /\ log' # log)]_vars
    /\ [][(Driver = "continuous" /\ pc = "normal_check" /\ ~running)
            => (pc' \in {"cycle_count", "backoff", "exited"} /\ i' = i)]_vars
    /\ [][(Driver = "continuous" /\ pc = "loop_top" /\ ~running)
            => (pc' = "exited" /\ cycle_counter' = cycle_counter)]_vars

C17_Witness ==
    /\ Driver = "continuous" /\ emitter = "forwarder"
    /\ ~running /\ pc = "cycle_count"
    /\ i > 0 /\ i < NormalsPerCycle

(* ---- C18 -------------------------------------------------------------- *)
\* The record satisfies every trigger condition the pattern declares: the
\* required service, the required log_level, and each required keyword as
\* a literal substring of the message.
ConditionsMet(conditions, rec) ==
    /\ "service" \in DOMAIN conditions => rec.service = conditions.service
    /\ "log_level" \in DOMAIN conditions => rec.level = conditions.log_level
    /\ "keywords" \in DOMAIN conditions =>
          \A kw \in Range(conditions.keywords) : Contains(rec.message, kw)

\* C18: a record of generate_normal_log has level INFO or DEBUG and, for
\* every catalog pattern, fails at least one of the pattern's trigger
\* conditions.
C18_NormalRecordTriggersNothing ==
    NormalRecordEmitted
        => /\ log.level \in {"INFO", "DEBUG"}
           /\ \A p \in PatternNames : ~ConditionsMet(patterns[p].conditions, log)

(* ---- C19 -------------------------------------------------------------- *)
\* The levels a record can carry, lower-cased.
LoweredLevel ==
    [ERROR |-> "error", WARN |-> "warn", INFO |-> "info", FATAL |-> "fatal",
     DEBUG |-> "debug", CRITICAL |-> "critical"]

\* C19: for every record the forwarder sends, the message key is
\* "{service}-{level}" with the record's service and its level as it is, the
\* envelope's level is the record's level in lower case, and JSON-decoding
\* the envelope's message gives the record back: the same keys with the
\* same values.
C19_EnvelopeCarriesRecord ==
    (emitter = "forwarder" /\ pc = "record_emitted" /\ out # <<>>)
        => /\ out[1].key = log.service \o "-" \o log.level
           /\ out[1].value.level = LoweredLevel[log.level]
           /\ LET decoded == json_loads(out[1].value.message)
              IN /\ decoded.ok
                 /\ Len(decoded.items) = Cardinality(DOMAIN log)
                 /\ ObjectKeys(decoded.items) = DOMAIN log
                 /\ \A key \in DOMAIN log :
                       ObjectGet(decoded.items, key) = log[key]

C19_Witness ==
    /\ emitter = "forwarder" /\ pc = "record_emitted" /\ out # <<>>
    /\ pattern_name = "critical_namespace_alerts"
    /\ out[1].value.level = "critical"
    /\ out[1].key = log.service \o "-CRITICAL"

(* ---- C20 -------------------------------------------------------------- *)
\* The service and level the e2e override map pins for its four patterns.
Pinned ==
    [high_error_rate |-> [service |-> "payment-service", level |-> "ERROR"],
     high_warn_rate |-> [service |-> "user-service", level |-> "WARN"],
     database_errors |-> [service |-> "database-service", level |-> "FATAL"],
     authentication_failures |-> [service |-> "authentication-api", level |-> "ERROR"]]

TestCall == Driver = "test" /\ testCalls' # testCalls

\* C21: in the generator's test pass the prioritized e2e patterns are burst
\* in their listed order, and every burst of a prioritized pattern comes
\* before every burst of a remaining catalog pattern.  When a prioritized
\* pattern is called, exactly the ones listed before it have been burst and
\* no remaining pattern has; when a remaining pattern is called, every
\* prioritized pattern has been burst.
C21_PrioritizedFirstInOrder ==
    [][(emitter = "generator" /\ TestCall)
         => LET p == pattern_name'
                listed == Range(e2e_test_patterns)
            IN /\ p \in listed =>
                    \A j \in DOMAIN e2e_test_patterns :
                       e2e_test_patterns[j] = p =>
                         /\ \A m \in DOMAIN e2e_test_patterns :
                               testCalls[e2e_test_patterns[m]]
                                  = (IF m < j THEN 1 ELSE 0)
                         /\ \A q \in PatternNames \ listed : testCalls[q] = 0
               /\ p \notin listed =>
                    \A q \in listed : testCalls[q] = 1]_vars

C21_Witness ==
    /\ emitter = "generator" /\ Driver = "test" /\ pc = "burst_entry"
    /\ pattern_name \notin Range(e2e_test_patterns)
    /\ \A q \in Range(e2e_test_patterns) : testCalls[q] = 1
    /\ \E q \in PatternNames \ Range(e2e_test_patterns) :
          q # pattern_name /\ testCalls[q] = 1

(* ---- C22 -------------------------------------------------------------- *)
\* generate_pattern_burst is running and was called with a count.
ExplicitBurst == pc \in {"burst_loop", "burst_sleep"} /\ countArg # <<>>

\* C22: generate_pattern_burst(P, count=n) generates exactly n records, none
\* when n = 0, whatever the mode and P's threshold: the count in use is n,
\* every record generated is one of the first n, and the burst returns after
\* n records.  The automatic count (2 in test mode, threshold + 1..3
\* otherwise) is in use only when count is None.
C22_ExplicitCountIsExact ==
    /\ [](ExplicitBurst => count = countArg[1])
    /\ []((ExplicitBurst /\ PatternRecordEmitted) => k < countArg[1])
    /\ [][(BurstReturns /\ countArg # <<>>) => k = countArg[1]]_vars
    /\ [](AutoBurst =>
            IF mode = "test" THEN count = 2
            ELSE count \in {Threshold(patterns[pattern_name]) + b : b \in 1..3})

C22_Witness ==
    /\ emitter = "generator" /\ entry = "burst" /\ mode = "test"
    /\ pattern_name = "high_error_rate"
    /\ pc = "burst_loop" /\ countArg = <<3>> /\ count = 3 /\ k = 3

(* ---- C23 -------------------------------------------------------------- *)
\* The generator's continuous loop, with a burst interval of at least 1.
GeneratorLoop ==
    emitter = "generator" /\ Driver = "continuous" /\ burst_interval >= 1

\* C23: in the generator's continuous loop with burst_interval >= 1, while
\* the loop runs and once a due burst has been invoked, the number of bursts
\* started is the number
\* of j in 1..cycle_counter with j mod burst_interval = 0, whatever cycles
\* were aborted by a caught exception.  An exception in the normal phase
\* leaves cycle_counter as it is, and an exception in a burst leads to the
\* back-off and the next cycle without the burst being invoked again.
C23_BurstsMatchCountedCycles ==
    /\ []((GeneratorLoop /\ InStart /\ pc # "burst_entry")
            => burstsStarted =
                 Cardinality({j \in 1..cycle_counter : j % burst_interval = 0}))
    /\ [][(GeneratorLoop /\ pc \in {"normal_check", "normal_sleep"}
              /\ pc' = "backoff")
            => cycle_counter' = cycle_counter]_vars
    /\ [][(GeneratorLoop /\ pc \in {"burst_loop", "burst_sleep"}
              /\ pc' = "backoff")
            => (cycle_counter' = cycle_counter
                  /\ burstsStarted' = burstsStarted)]_vars
    /\ [][(GeneratorLoop /\ pc = "backoff" /\ pc' # pc)
            => (pc' \in {"loop_top", "exited"}
                  /\ burstsStarted' = burstsStarted)]_vars

C23_Witness ==
    /\ GeneratorLoop /\ burst_interval = 2
    /\ pc = "backoff" /\ raised = "Exception"
    /\ cycle_counter = 3 /\ burstsStarted = 1

(* ---- C24 -------------------------------------------------------------- *)
\* C24: once running is False while a continuous driver is inside start, no
\* step of the driver emits a record, normal or pattern, before the loop
\* exits.
C24_NoRecordAfterFlagCleared ==
    [][(Driver = "continuous" /\ InStart /\ ~running)
         => ~((NormalRecordEmitted' \/ PatternRecordEmitted') /\ log' # log)]_vars

====
